---- MODULE Spec2Model ----
(***************************************************************************)
(* Access-control core of filesystem-mcp: the allow-list store, the        *)
(* containment checker, the path normalizer, the path validator, the       *)
(* root-directory reconciler, server initialization and the utility tool.  *)
(*                                                                         *)
(* A path string is a sequence of one-character strings, so that prefix    *)
(* tests, trimming and separator handling are computed as the code         *)
(* computes them.  The host is POSIX (process.platform # 'win32',          *)
(* path.sep = '/').                                                        *)
(***************************************************************************)
EXTENDS Integers, Sequences, FiniteSets, TLC

\* ------------------------------------------------------------------ bounds
NumCalls == 1      \* concurrent validatePath calls
MaxSegs  == 2      \* segments of a path handed to the containment checker
MaxRoots == 2      \* roots in one roots/list response
MaxLen   == 3      \* characters of a string handed to normalizePath
MaxOther == 2      \* calls of the second tool within one window
MaxFiles == 2      \* input files of one text merge

\* utility.ts: keepLast: z.number().optional().default(5)
KeepLastDefault == 5

\* handlers/index.ts: the rate limiter's window (ms) and requests per window
RATE_LIMIT_WINDOW == 60000
RATE_LIMIT_MAX == 100

\* --------------------------------------------------------- string helpers
SEP == "/"

startsWith(s, pre) ==
    /\ Len(pre) <= Len(s)
    /\ SubSeq(s, 1, Len(pre)) = pre

endsWith(s, suf) ==
    /\ Len(suf) <= Len(s)
    /\ SubSeq(s, Len(s) - Len(suf) + 1, Len(s)) = suf

slice(s, n) == SubSeq(s, n + 1, Len(s))

IndexOfSep(s) ==
    IF \E i \in 1..Len(s) : s[i] = SEP
    THEN CHOOSE i \in 1..Len(s) : s[i] = SEP /\ \A j \in 1..(i - 1) : s[j] # SEP
    ELSE 0

RECURSIVE Split(_)
Split(s) ==
    LET i == IndexOfSep(s)
    IN  IF i = 0 THEN <<s>>
        ELSE <<SubSeq(s, 1, i - 1)>> \o Split(SubSeq(s, i + 1, Len(s)))

RECURSIVE JoinSegs(_)
JoinSegs(segs) ==
    IF segs = <<>> THEN <<>>
    ELSE IF Len(segs) = 1 THEN segs[1]
    ELSE segs[1] \o <<SEP>> \o JoinSegs(Tail(segs))

DOTDOT == <<".", ".">>

\* node:path posix normalizeString: drops empty and '.' segments, resolves '..'
RECURSIVE normalizeString(_, _, _)
normalizeString(segs, acc, allowAboveRoot) ==
    IF segs = <<>> THEN acc
    ELSE LET s == Head(segs)
             rest == Tail(segs)
         IN  IF s = <<>> \/ s = <<".">> THEN normalizeString(rest, acc, allowAboveRoot)
             ELSE IF s = DOTDOT
                  THEN IF acc # <<>> /\ acc[Len(acc)] # DOTDOT
                       THEN normalizeString(rest, SubSeq(acc, 1, Len(acc) - 1), allowAboveRoot)
                       ELSE IF allowAboveRoot
                            THEN normalizeString(rest, Append(acc, s), allowAboveRoot)
                            ELSE normalizeString(rest, acc, allowAboveRoot)
                  ELSE normalizeString(rest, Append(acc, s), allowAboveRoot)

pathIsAbsolute(p) == Len(p) > 0 /\ p[1] = SEP

\* node:path posix normalize
pathNormalize(p) ==
    IF p = <<>> THEN <<".">>
    ELSE LET abs   == pathIsAbsolute(p)
             trail == p[Len(p)] = SEP
             body  == JoinSegs(normalizeString(Split(p), <<>>, ~abs))
         IN  IF body = <<>>
             THEN IF abs THEN <<SEP>> ELSE IF trail THEN <<".", SEP>> ELSE <<".">>
             ELSE (IF abs THEN <<SEP>> ELSE <<>>) \o body \o (IF trail THEN <<SEP>> ELSE <<>>)

\* process.cwd() and os.homedir() of the server process
Cwd     == <<"/", "b">>
HomeDir == <<"/", "a">>

\* node:path posix resolve(p), relative paths resolved against process.cwd()
pathResolve(p) ==
    LET full == IF pathIsAbsolute(p) THEN p ELSE Cwd \o <<SEP>> \o p
    IN  <<SEP>> \o JoinSegs(normalizeString(Split(full), <<>>, FALSE))

\* node:path posix dirname of a resolved absolute path
pathDirname(p) ==
    LET segs == normalizeString(Split(p), <<>>, FALSE)
    IN  IF Len(segs) <= 1 THEN <<SEP>>
        ELSE <<SEP>> \o JoinSegs(SubSeq(segs, 1, Len(segs) - 1))

pathJoin(a, b) == pathNormalize(a \o <<SEP>> \o b)

\* ---------------------------------------------------------- path-utils.ts
IsSpace(ch) == ch = " "
IsQuote(ch) == ch = "'" \/ ch = "\""

RECURSIVE trimStart(_)
trimStart(s) == IF s # <<>> /\ IsSpace(Head(s)) THEN trimStart(Tail(s)) ELSE s

RECURSIVE trimEnd(_)
trimEnd(s) ==
    IF s # <<>> /\ IsSpace(s[Len(s)]) THEN trimEnd(SubSeq(s, 1, Len(s) - 1)) ELSE s

trim(s) == trimEnd(trimStart(s))

\* p.replace(/^['"]|['"]$/g, ''): one quote off the front, one off the end
stripQuotes(s) ==
    LET a == IF s # <<>> /\ IsQuote(Head(s)) THEN Tail(s) ELSE s
    IN  IF a # <<>> /\ IsQuote(a[Len(a)]) THEN SubSeq(a, 1, Len(a) - 1) ELSE a

\* p.replace(/\/+/g, '/')
RECURSIVE collapseSlashes(_)
collapseSlashes(s) ==
    IF Len(s) <= 1 THEN s
    ELSE IF s[1] = SEP /\ s[2] = SEP THEN collapseSlashes(Tail(s))
    ELSE <<s[1]>> \o collapseSlashes(Tail(s))

\* p.replace(/\/+$/, '')
RECURSIVE stripTrailingSlashes(_)
stripTrailingSlashes(s) ==
    IF s # <<>> /\ s[Len(s)] = SEP
    THEN stripTrailingSlashes(SubSeq(s, 1, Len(s) - 1))
    ELSE s

\* normalizePath on a POSIX host: a path starting with '/' takes the Unix
\* branch; anything else goes through path.normalize (the drive-letter and
\* backslash rewrites do not apply to the strings modelled here).
normalizePath(p0) ==
    LET p == stripQuotes(trim(p0))
    IN  IF startsWith(p, <<SEP>>)
        THEN LET normalized == stripTrailingSlashes(collapseSlashes(p))
             IN  IF normalized = <<>> THEN <<SEP>> ELSE normalized
        ELSE pathNormalize(p)

expandHome(filepath) ==
    IF startsWith(filepath, <<"~", SEP>>) \/ filepath = <<"~">>
    THEN pathJoin(HomeDir, slice(filepath, 1))
    ELSE filepath

\* ----------------------------------------------------- path-validation.ts
NUL == "NUL"       \* the character '\x00'
includes(s, ch) == \E i \in 1..Len(s) : s[i] = ch

\* One allowed directory against the normalized candidate (the callback of
\* allowedDirectories.some).  On POSIX the drive-root branch is dead.
dirAdmitsNoSep(normalizedPath, dir) ==
    IF dir = <<>> \/ includes(dir, NUL) THEN FALSE
    ELSE LET normalizedDir == pathResolve(pathNormalize(dir))
         IN  IF normalizedPath = normalizedDir THEN TRUE
             ELSE IF normalizedDir = <<SEP>> THEN startsWith(normalizedPath, <<SEP>>)
             ELSE startsWith(normalizedPath, normalizedDir)

dirAdmitsNoRoot(normalizedPath, dir) ==
    IF dir = <<>> \/ includes(dir, NUL) THEN FALSE
    ELSE LET normalizedDir == pathResolve(pathNormalize(dir))
         IN  IF normalizedPath = normalizedDir THEN TRUE
             ELSE startsWith(normalizedPath, normalizedDir \o <<SEP>>)

dirAdmits(normalizedPath, dir) ==
    IF dir = <<>> \/ includes(dir, NUL) THEN FALSE
    ELSE LET normalizedDir == pathResolve(pathNormalize(dir))
         IN  IF normalizedPath = normalizedDir THEN TRUE
             ELSE IF normalizedDir = <<SEP>> THEN startsWith(normalizedPath, <<SEP>>)
             ELSE startsWith(normalizedPath, normalizedDir \o <<SEP>>)

isPathWithinEmptyAdmits(absolutePath, allowedDirs) ==
    IF absolutePath = <<>> THEN FALSE
    ELSE IF Len(allowedDirs) = 0 THEN TRUE
    ELSE IF includes(absolutePath, NUL) THEN FALSE
    ELSE LET normalizedPath == pathResolve(pathNormalize(absolutePath))
         IN  \E i \in 1..Len(allowedDirs) : dirAdmits(normalizedPath, allowedDirs[i])

isPathWithinAllowedDirectories(absolutePath, allowedDirs) ==
    IF absolutePath = <<>> \/ Len(allowedDirs) = 0 THEN FALSE
    ELSE IF includes(absolutePath, NUL) THEN FALSE
    ELSE LET normalizedPath == pathResolve(pathNormalize(absolutePath))
         IN  \E i \in 1..Len(allowedDirs) : dirAdmits(normalizedPath, allowedDirs[i])

\* ------------------------------------------------------------ filesystem
\* The directory tree the server runs on.  /a/l and /a/d are symlinks that
\* leave /a; /ab and /a' are siblings of /a whose names extend its name.
pA    == <<"/", "a">>
pB    == <<"/", "b">>
pAB   == <<"/", "a", "b">>
pAq   == <<"/", "a", "'">>
pAf   == <<"/", "a", "/", "f">>
pAl   == <<"/", "a", "/", "l">>
pAd   == <<"/", "a", "/", "d">>
pBg   == <<"/", "b", "/", "g">>

FsDirs  == {<<SEP>>, pA, pB, pAB}
pBgBk == pBg \o <<".", "b", "a", "c", "k", "u", "p">>

FsFiles == {pAf, pBg, pAq, pBgBk}
FsLinks == {<<pAl, pBg>>, <<pAd, pB>>}

IsLink(p)     == \E l \in FsLinks : l[1] = p
LinkTarget(p) == (CHOOSE l \in FsLinks : l[1] = p)[2]

\* fs.realpath on a resolved absolute path: follow each component
RECURSIVE walk(_, _)
walk(cur, segs) ==
    IF segs = <<>> THEN [code |-> "OK", path |-> cur]
    ELSE IF cur \notin FsDirs THEN [code |-> "ENOTDIR", path |-> cur]
    ELSE LET cand == (IF cur = <<SEP>> THEN <<>> ELSE cur) \o <<SEP>> \o Head(segs)
         IN  IF IsLink(cand) THEN walk(LinkTarget(cand), Tail(segs))
             ELSE IF cand \in FsDirs \cup FsFiles THEN walk(cand, Tail(segs))
             ELSE [code |-> "ENOENT", path |-> cand]

realpath(p) == walk(<<SEP>>, normalizeString(Split(p), <<>>, FALSE))

\* fs.stat(p).isDirectory(), following symlinks
\* node:path posix basename of a resolved absolute path
pathBasename(p) ==
    LET segs == normalizeString(Split(p), <<>>, FALSE)
    IN  IF segs = <<>> THEN <<>> ELSE segs[Len(segs)]

\* fs.readdir(dir): the names in the directory dir resolves to
readdir(dir) ==
    LET r == realpath(dir)
    IN  IF r.code = "OK" /\ r.path \in FsDirs
        THEN {pathBasename(e) : e \in {x \in (FsDirs \cup FsFiles \cup {l[1] : l \in FsLinks}) :
                                          x # <<SEP>> /\ pathDirname(x) = r.path}}
        ELSE {}

statIsDirectory(p) ==
    LET r == realpath(p) IN r.code = "OK" /\ r.path \in FsDirs

\* ------------------------------------------------------------------ state
VARIABLES
    allowedDirectories,   \* lib/validation.ts: the module-level allow-list
    lastSet,              \* argument of the latest setAllowedDirectories call
    calls,                \* the validatePath calls in flight
    query,                \* the latest direct use of the containment checker
    srvAllowed,           \* handlers/index.ts: allowedDirectories of installHandlers
    clientRoots,          \* whether the client advertises the roots capability
    init,                 \* progress of server.oninitialized
    recon,                \* the root reconciliations in flight
    handler,              \* the utility tool call in flight
    callers,              \* the arrays callers of the allow-list store hold
    norm,                 \* the latest direct use of normalizePath
    now,                  \* Date.now(), in milliseconds
    rateLimit,            \* handlers/index.ts: the rateLimit map
    sent,                 \* per tool, the calls dispatched at each recent instant
    request,              \* the latest tools/call request and what became of it
    router,               \* the tools/call request being routed
    merge,                \* the text merge being run
    finder,               \* the searchFilesWithValidation call in flight
    writers               \* the atomic writes in flight and the files they touch

storeVars == <<allowedDirectories, lastSet>>
rootVars  == <<srvAllowed, clientRoots, init, recon>>
dispatchVars == <<now, rateLimit, sent, request>>
coreVars == <<allowedDirectories, lastSet, calls, query, srvAllowed,
              clientRoots, init, recon, handler>>
moreVars == <<router, merge, finder, writers>>
auxVars == <<callers, norm, now, rateLimit, sent, request, router, merge,
             finder, writers>>
vars == <<allowedDirectories, lastSet, calls, query, srvAllowed,
          clientRoots, init, recon, handler, callers, norm, now, rateLimit,
          sent, request, router, merge, finder, writers>>

Calls == 1..NumCalls

\* Strings a client asks validatePath about.
Requests == {
    pAf,                                         \* file in /a
    pAl,                                         \* symlink /a/l -> /b/g
    pAd \o <<"/", "g">>,                         \* through symlink /a/d -> /b
    pA \o <<"/", "n">>,                          \* new file in /a
    pAd \o <<"/", "n">>,                         \* new file behind /a/d -> /b
    pA \o <<"/", "x", "/", "n">>,                \* new file, parent missing
    pAB,                                         \* sibling /ab
    pBg,                                         \* file in /b
    pAq,                                         \* sibling /a'
    pA \o <<"/", ".", ".", "/", "b", "/", "g">>, \* /a/../b/g
    <<"g">>,                                     \* relative to cwd
    <<"~", "/", "f">>,                           \* home shorthand
    pAf \o <<"/", "x">>,                         \* beneath a file
    <<"/", "c", "/", "x">> }                     \* nothing there

\* Values handed to setAllowedDirectories.
AllowLists == {<<>>, <<pA>>, <<pB>>, <<pA, pB>>}

NoPath == <<>>

IdleCall == [pc |-> "idle", requested |-> NoPath, absolute |-> NoPath,
             real |-> NoPath, kind |-> "none", result |-> NoPath,
             fsCalls |-> 0, list1 |-> <<>>, list2 |-> <<>>, replaced |-> FALSE]

NoQuery == [rawPath |-> NoPath, rawDir |-> NoPath, path |-> NoPath, dir |-> NoPath,
            result |-> FALSE, rawResult |-> FALSE, asked |-> FALSE,
            type |-> "string", outcome |-> "none"]

IdleHandler == [pc |-> "idle", op |-> "none", path |-> NoPath, second |-> NoPath,
                keepLast |-> 0, validated |-> {}, io |-> {}, outcome |-> "none"]

\* Reconciliations are taken one at a time here: a notification is handled
\* once the previous handler has returned.
Recons == {1}

IdleRecon == [pc |-> "idle", origin |-> "none", roots |-> <<>>, i |-> 0,
              resolvedPath |-> NoPath, validatedDirectories |-> <<>>,
              outcome |-> "none", skipped |-> 0]

\* Arrays a caller of the allow-list store holds: the one it gave to
\* setAllowedDirectories and the one getAllowedDirectories returned to it.
\* shared says the array is the very object the module variable refers to.
NoArray == [held |-> FALSE, value |-> <<>>, shared |-> FALSE, mutated |-> FALSE]

IdleCallers == [given |-> NoArray, returned |-> NoArray,
                gotStored |-> TRUE, gotAfterMutation |-> FALSE,
                checkedStored |-> TRUE, checkedAfterMutation |-> FALSE]

NoNorm == [input |-> NoPath, once |-> NoPath, twice |-> NoPath, applied |-> FALSE]

\* Tool names of the handler map, and the instants at which Date.now() is
\* read: the start, one window later, and the millisecond after that.
Tools == {"write", "search"}
UnknownName == "nope"
Instants == {0, 60000, 60001}

NoLimit == [set |-> FALSE, count |-> 0, resetTime |-> 0]

NoAudit == [written |-> FALSE, name |-> "none", args |-> "none"]

NoRequest == [name |-> "none", args |-> "none", response |-> "none",
              audit |-> NoAudit, warned |-> FALSE, ran |-> FALSE,
              handed |-> <<>>, before |-> NoLimit]

\* State once the start-up code has handed the command-line directories to
\* setAllowedDirectories and installHandlers has run.
InitCore(startDirs, hasRoots, q) ==
    /\ allowedDirectories = startDirs
    /\ lastSet = startDirs
    /\ calls = [c \in Calls |-> IdleCall]
    /\ query = q
    /\ srvAllowed = startDirs
    /\ clientRoots = hasRoots
    /\ init = [pc |-> "connected", error |-> "none", startDirs |-> startDirs]
    /\ recon = [r \in Recons |-> IdleRecon]
    /\ handler = IdleHandler

IdleFinder == [pc |-> "idle", rootPath |-> NoPath, pattern |-> "none",
               stack |-> <<>>, current |-> NoPath, results |-> <<>>,
               passed |-> {}, failed |-> {}, visited |-> {}, read |-> {}]

\* The atomicWrite calls, the content of the target file, and the content
\* of the temp file of each instant ("absent": no such file).
Writers == {1, 2}

IdleWrite == [pc |-> "idle", tempPath |-> 0, content |-> "none"]

IdleWriters == [ops |-> [w \in Writers |-> IdleWrite], target |-> "old",
                temps |-> [i \in Instants |-> "absent"]]

\* An error value: what was thrown, and whether it is an instance of Error.
NoError == [thrown |-> FALSE, instanceofError |-> FALSE, message |-> <<>>]

IdleRouter == [pc |-> "idle", name |-> "none", behaviour |-> "none",
               raised |-> NoError, isError |-> FALSE, text |-> <<>>,
               escaped |-> FALSE, afterError |-> FALSE]

NoMerge == [tool |-> "none", contents |-> <<>>, separator |-> <<>>,
            written |-> <<>>, done |-> FALSE]

InitMore ==
    /\ router = IdleRouter
    /\ merge = NoMerge
    /\ finder = IdleFinder
    /\ writers = IdleWriters

InitDispatch ==
    /\ now = 0
    /\ rateLimit = [t \in Tools \cup {UnknownName} |-> NoLimit]
    /\ sent = [t \in Tools |-> [i \in Instants |-> 0]]
    /\ request = NoRequest

InitWith(startDirs, hasRoots, q) ==
    /\ InitCore(startDirs, hasRoots, q)
    /\ callers = IdleCallers
    /\ norm = NoNorm
    /\ InitDispatch
    /\ InitMore

Init == \E d \in AllowLists : InitWith(d, FALSE, NoQuery)

\* setAllowedDirectories(directories): whole-list replacement with a copy.
\* Every call in flight notes that the list was replaced under it.
storeMerged(old, directories) == old \o directories
storeReplaced(old, directories) == directories

setAllowedDirectories(directories) ==
    /\ allowedDirectories' = storeReplaced(allowedDirectories, directories)
    /\ lastSet' = directories
    /\ calls' = [c \in Calls |->
                    IF calls[c].pc \in {"realpath", "parentRealpath"}
                       /\ directories # allowedDirectories
                    THEN [calls[c] EXCEPT !.replaced = TRUE]
                    ELSE calls[c]]

\* A direct call of the setter (startup code, tests).
SetAllowedDirectories(directories) ==
    /\ setAllowedDirectories(directories)
    /\ UNCHANGED <<query, auxVars, rootVars, handler>>

\* validatePath, lines 18-31: expand, resolve, normalize, first containment
\* check; on success the call suspends in fs.realpath(absolute).
firstCheckSkipped(normalizedRequested, dirs) == TRUE
firstCheck(normalizedRequested, dirs) ==
    isPathWithinAllowedDirectories(normalizedRequested, dirs)

validateStart(c, requestedPath) ==
    /\ calls[c].pc = "idle"
    /\ LET expandedPath == expandHome(requestedPath)
           absolute == pathResolve(expandedPath)
           normalizedRequested == normalizePath(absolute)
           isAllowed == firstCheck(normalizedRequested, allowedDirectories)
       IN  calls' = [calls EXCEPT ![c] =
                [IdleCall EXCEPT
                    !.requested = requestedPath,
                    !.absolute = absolute,
                    !.list1 = allowedDirectories,
                    !.pc = IF isAllowed THEN "realpath" ELSE "done",
                    !.kind = IF isAllowed THEN "none" ELSE "AccessDenied"]]

ValidateStart(c, requestedPath) ==
    /\ handler.pc = "idle"
    /\ validateStart(c, requestedPath)
    /\ UNCHANGED <<storeVars, query, auxVars, rootVars, handler>>

\* validatePath, lines 31-39: fs.realpath(absolute) settles.  Resolved: the
\* second containment check, against the allow-list as it is now.  ENOENT:
\* the call suspends in fs.realpath(parentDir).  Other errors propagate.
realCheck(normalizedReal, dirs) ==
    isPathWithinAllowedDirectories(normalizedReal, dirs)

ValidateRealpath(c) ==
    /\ calls[c].pc = "realpath"
    /\ LET r == realpath(calls[c].absolute)
           me == [calls[c] EXCEPT !.fsCalls = @ + 1]
       IN  calls' = [calls EXCEPT ![c] =
                IF r.code = "OK"
                THEN IF realCheck(normalizePath(r.path), allowedDirectories)
                     THEN [me EXCEPT !.pc = "done", !.kind = "ok", !.result = r.path,
                                     !.real = r.path, !.list2 = allowedDirectories]
                     ELSE [me EXCEPT !.pc = "done", !.kind = "AccessDenied",
                                     !.real = r.path, !.list2 = allowedDirectories]
                ELSE IF r.code = "ENOENT"
                THEN [me EXCEPT !.pc = "parentRealpath"]
                ELSE [me EXCEPT !.pc = "done", !.kind = r.code]]
    /\ UNCHANGED <<storeVars, query, auxVars, rootVars, handler>>

\* validatePath, lines 39-49: fs.realpath(parentDir) settles.  The inner
\* catch turns every throw of the try block, the Access-denied one
\* included, into 'Parent directory does not exist'.
\* What the ENOENT branch settles with once fs.realpath(parentDir) has
\* settled with r: 'return absolute' when the parent resolved into the
\* allow-list, and 'Parent directory does not exist' for every throw of the
\* inner try block.
parentOutcomeRethrow(r, dirs) ==
    IF r.code = "OK"
    THEN IF isPathWithinAllowedDirectories(normalizePath(r.path), dirs)
         THEN "ok" ELSE "AccessDenied"
    ELSE r.code

parentOutcome(r, dirs) ==
    IF r.code = "OK" /\ isPathWithinAllowedDirectories(normalizePath(r.path), dirs)
    THEN "ok"
    ELSE "ParentMissing"

\* The value of 'return absolute' (line 46)
parentResultResolved(absolute, realParentPath) ==
    pathJoin(realParentPath, pathBasename(absolute))

parentResult(absolute, realParentPath) == absolute

ValidateParent(c) ==
    /\ calls[c].pc = "parentRealpath"
    /\ LET parentDir == pathDirname(calls[c].absolute)
           r == realpath(parentDir)
           me == [calls[c] EXCEPT !.fsCalls = @ + 1]
           kind == parentOutcome(r, allowedDirectories)
       IN  calls' = [calls EXCEPT ![c] =
                IF r.code = "OK"
                THEN [me EXCEPT !.pc = "done", !.kind = kind,
                                !.result = IF kind = "ok"
                                           THEN parentResult(calls[c].absolute, r.path)
                                           ELSE NoPath,
                                !.real = r.path, !.list2 = allowedDirectories]
                ELSE [me EXCEPT !.pc = "done", !.kind = kind]]
    /\ UNCHANGED <<storeVars, query, auxVars, rootVars, handler>>

\* The caller takes the settled promise; the slot is free for the next call.
ValidateReturn(c) ==
    /\ calls[c].pc = "done"
    /\ handler.pc = "idle"
    /\ calls' = [calls EXCEPT ![c] = IdleCall]
    /\ UNCHANGED <<storeVars, query, auxVars, rootVars, handler>>

Start   == \E c \in Calls, p \in Requests : ValidateStart(c, p)
Resolve == \E c \in Calls : ValidateRealpath(c)
Parent  == \E c \in Calls : ValidateParent(c)
Return  == \E c \in Calls : ValidateReturn(c)
Replace == \E d \in AllowLists : SetAllowedDirectories(d)

Next == Start \/ Resolve \/ Parent \/ Return \/ Replace

Spec == Init /\ [][Next]_vars

\* ------------------------------------------------ roots and initialization
uFileA == <<"f", "i", "l", "e", ":", "/", "/">> \o pA    \* file:///a, a directory
uAd    == pAd                                            \* /a/d, a symlink to /b
uAf    == pAf                                            \* /a/f, a file
uNone  == <<"/", "c">>                                   \* /c, not there

RootUris == {uFileA, uAd, uAf, uNone}

RECURSIVE RootLists(_)
RootLists(n) ==
    IF n = 0 THEN {<<>>}
    ELSE LET shorter == RootLists(n - 1)
         IN  shorter \cup {Append(l, u) : l \in shorter, u \in RootUris}

\* roots-utils.ts parseRootUri: NoPath stands for null
FILE_PREFIX == <<"f", "i", "l", "e", ":", "/", "/">>

parseRootUri(rootUri) ==
    LET rawPath == IF startsWith(rootUri, FILE_PREFIX) THEN slice(rootUri, 7) ELSE rootUri
        expandedPath == expandHome(rawPath)
        absolutePath == pathResolve(expandedPath)
        r == realpath(absolutePath)
    IN  IF r.code = "OK" THEN normalizePath(r.path) ELSE NoPath

\* updateAllowedDirectoriesFromRoots, lines 80-86, once getValidRootDirectories
\* has returned validatedRootDirs: replace both lists, or warn and keep them.
keepsOnEmptyCleared(validatedRootDirs) == TRUE
keepsOnEmpty(validatedRootDirs) == Len(validatedRootDirs) > 0

finishReconcile(r, me, validatedRootDirs) ==
    /\ recon' = [recon EXCEPT ![r] =
            [me EXCEPT !.pc = "done",
                       !.validatedDirectories = validatedRootDirs,
                       !.outcome = IF Len(validatedRootDirs) > 0 THEN "updated" ELSE "warned"]]
    /\ IF keepsOnEmpty(validatedRootDirs)
       THEN /\ srvAllowed' = validatedRootDirs
            /\ setAllowedDirectories(validatedRootDirs)
       ELSE UNCHANGED <<srvAllowed, storeVars, calls>>
    /\ init' = IF me.origin = "init" THEN [init EXCEPT !.pc = "ready"] ELSE init

\* The for-loop of getValidRootDirectories moves to root i, or ends.
advancePublishing(r, me, validatedRootDirs, i) ==
    IF i > Len(me.roots)
    THEN finishReconcile(r, me, validatedRootDirs)
    ELSE /\ recon' = [recon EXCEPT ![r] =
                [me EXCEPT !.pc = "parse", !.i = i,
                           !.validatedDirectories = validatedRootDirs]]
         /\ init' = IF me.origin = "init" THEN [init EXCEPT !.pc = "reconciling"] ELSE init
         /\ srvAllowed' = validatedRootDirs
         /\ setAllowedDirectories(validatedRootDirs)

advance(r, me, validatedRootDirs, i) ==
    IF i > Len(me.roots)
    THEN finishReconcile(r, me, validatedRootDirs)
    ELSE /\ recon' = [recon EXCEPT ![r] =
                [me EXCEPT !.pc = "parse", !.i = i,
                           !.validatedDirectories = validatedRootDirs]]
         /\ init' = IF me.origin = "init" THEN [init EXCEPT !.pc = "reconciling"] ELSE init
         /\ UNCHANGED <<srvAllowed, storeVars, calls>>

\* server.oninitialized, lines 98-115, up to its first await or its end.
NoDirsError == "Server cannot operate: No allowed directories available."

initOutcomeNoThrow(hasRoots, dirs) == IF hasRoots THEN "listRoots" ELSE "ready"
initOutcome(hasRoots, dirs) ==
    IF hasRoots THEN "listRoots"
    ELSE IF Len(dirs) > 0 THEN "ready" ELSE "failed"

OnInitialized ==
    /\ init.pc = "connected"
    /\ LET next == initOutcome(clientRoots, srvAllowed)
       IN  init' = [init EXCEPT !.pc = next,
                                !.error = IF next = "failed" THEN NoDirsError ELSE "none"]
    /\ UNCHANGED <<storeVars, calls, query, auxVars, srvAllowed, clientRoots, recon, handler>>

\* server.listRoots() of oninitialized settles: it throws (logged), answers
\* without roots (warning), or answers with roots, which are reconciled.
InitRootsFailed ==
    /\ init.pc = "listRoots"
    /\ init' = [init EXCEPT !.pc = "ready"]
    /\ UNCHANGED <<storeVars, calls, query, auxVars, srvAllowed, clientRoots, recon, handler>>

InitRootsResponse(r, roots) ==
    /\ init.pc = "listRoots"
    /\ recon[r].pc = "idle"
    /\ advance(r, [IdleRecon EXCEPT !.origin = "init", !.roots = roots], <<>>, 1)
    /\ UNCHANGED <<query, auxVars, clientRoots, handler>>

\* notifications/roots/list_changed arrives: the handler awaits listRoots.
RootsListChanged(r) ==
    /\ init.pc # "connected"
    /\ recon[r].pc = "idle"
    /\ recon' = [recon EXCEPT ![r] = [IdleRecon EXCEPT !.pc = "listRoots", !.origin = "notify"]]
    /\ UNCHANGED <<storeVars, calls, query, auxVars, srvAllowed, clientRoots, init, handler>>

NotifyRootsFailed(r) ==
    /\ recon[r].pc = "listRoots"
    /\ recon' = [recon EXCEPT ![r] = [recon[r] EXCEPT !.pc = "done", !.outcome = "failed"]]
    /\ UNCHANGED <<storeVars, calls, query, auxVars, srvAllowed, clientRoots, init, handler>>

NotifyRootsResponse(r, roots) ==
    /\ recon[r].pc = "listRoots"
    /\ advance(r, [recon[r] EXCEPT !.roots = roots], <<>>, 1)
    /\ UNCHANGED <<query, auxVars, clientRoots, handler>>

\* getValidRootDirectories, lines 27-31: parseRootUri(requestedRoot.uri)
\* settles; a null result is logged and the root skipped.
ReconcileParse(r) ==
    /\ recon[r].pc = "parse"
    /\ LET me == recon[r]
           resolvedPath == parseRootUri(me.roots[me.i])
       IN  IF resolvedPath = NoPath
           THEN advance(r, [me EXCEPT !.skipped = @ + 1], me.validatedDirectories, me.i + 1)
           ELSE /\ recon' = [recon EXCEPT ![r] =
                        [me EXCEPT !.pc = "stat", !.resolvedPath = resolvedPath]]
                /\ UNCHANGED <<srvAllowed, storeVars, calls, init>>
    /\ UNCHANGED <<query, auxVars, clientRoots, handler>>

\* getValidRootDirectories, lines 32-41: fs.stat(resolvedPath) settles; a
\* directory is pushed, anything else (a stat error too) logged and skipped.
pushValidFront(validatedDirectories, resolvedPath) ==
    <<resolvedPath>> \o validatedDirectories
pushValid(validatedDirectories, resolvedPath) ==
    Append(validatedDirectories, resolvedPath)

ReconcileStat(r) ==
    /\ recon[r].pc = "stat"
    /\ LET me == recon[r]
       IN  IF me.resolvedPath # NoPath /\ statIsDirectory(me.resolvedPath)
           THEN advance(r, me, pushValid(me.validatedDirectories, me.resolvedPath), me.i + 1)
           ELSE advance(r, [me EXCEPT !.skipped = @ + 1], me.validatedDirectories, me.i + 1)
    /\ UNCHANGED <<query, auxVars, clientRoots, handler>>

\* The handler's promise settles; the slot is free for the next notification.
ReconcileReturn(r) ==
    /\ recon[r].pc = "done"
    /\ recon' = [recon EXCEPT ![r] = IdleRecon]
    /\ UNCHANGED <<storeVars, calls, query, auxVars, srvAllowed, clientRoots, init, handler>>

InitRoots   == \E r \in Recons, l \in RootLists(MaxRoots) : InitRootsResponse(r, l)
Notify      == \E r \in Recons : RootsListChanged(r)
NotifyFail  == \E r \in Recons : NotifyRootsFailed(r)
NotifyRoots == \E r \in Recons, l \in RootLists(MaxRoots) : NotifyRootsResponse(r, l)
ParseRoot   == \E r \in Recons : ReconcileParse(r)
StatRoot    == \E r \in Recons : ReconcileStat(r)
ReconReturn == \E r \in Recons : ReconcileReturn(r)

NextRoots ==
    \/ OnInitialized \/ InitRootsFailed \/ InitRoots
    \/ Notify \/ NotifyFail \/ NotifyRoots
    \/ ParseRoot \/ StatRoot \/ ReconReturn

InitRootsSpec ==
    \E d \in {<<>>, <<pA>>}, hasRoots \in BOOLEAN : InitWith(d, hasRoots, NoQuery)

SpecRoots == InitRootsSpec /\ [][NextRoots]_vars

\* --------------------------------------------------------- the utility tool
BAK    == <<".", "b", "a", "k">>
BACKUP == <<".", "b", "a", "c", "k", "u", "p">>
GZ     == <<".", "g", "z">>
BR     == <<".", "b", "r">>

\* s.replace(/\.backup.*$/, ''): cut from the first '.backup' on
RECURSIVE cutBackup(_)
cutBackup(s) ==
    IF s = <<>> THEN s
    ELSE IF startsWith(s, BACKUP) THEN <<>>
    ELSE <<Head(s)>> \o cutBackup(Tail(s))

\* s.replace(/\.bak$/, '')
cutBak(s) == IF endsWith(s, BAK) THEN SubSeq(s, 1, Len(s) - Len(BAK)) ELSE s

\* s.replace(/\.(gz|br)$/, '')
cutCompressed(s) ==
    IF endsWith(s, GZ) \/ endsWith(s, BR) THEN SubSeq(s, 1, Len(s) - 3) ELSE s

\* a || b on strings: the empty string is falsy
orElse(a, b) == IF a # NoPath THEN a ELSE b

ValidatingOps == {"backup-create", "backup-restore", "compress", "decompress", "hash"}
ListingOps    == {"backup-list", "backup-rotate"}

\* data.path (data.backupPath for backup-restore) and the operation's other
\* path argument: backupPath, targetPath or outputPath; NoPath when omitted.
ToolPaths   == {pAf, pBg, pA \o <<"/", "n">>}
OtherPaths  == {NoPath, pBg, pA \o <<"/", "n">>}
KeepLasts   == {0, KeepLastDefault}

IoCall(fn, path) == [fn |-> fn, path |-> path]

\* handleBackup / handleCompression / handleHash once validatePath has
\* returned validPath: the filesystem calls the operation goes on to make.
\* This server runs unversioned gzip operations (the schema's defaults).
ioAfterValidation(op, validPath, other) ==
    IF op = "backup-create"
    THEN {IoCall("copyFile.src", validPath),
          IoCall("copyFile.dest", orElse(other, validPath \o BAK))}
    ELSE IF op = "backup-restore"
    THEN {IoCall("copyFile.src", validPath),
          IoCall("copyFile.dest", orElse(other, cutBak(cutBackup(validPath))))}
    ELSE IF op = "compress"
    THEN {IoCall("createReadStream", validPath),
          IoCall("createWriteStream", orElse(other, validPath \o GZ))}
    ELSE IF op = "decompress"
    THEN {IoCall("createReadStream", validPath),
          IoCall("createWriteStream", orElse(other, cutCompressed(validPath)))}
    ELSE {IoCall("readFile", validPath)}

\* handleBackup, 'list' and 'rotate': no validatePath call; readdir of
\* path.dirname(data.path), and for rotate unlink of the backups beyond
\* keepLast (the directories modelled hold at most one backup of a file, so
\* the sort order does not decide which are deleted).
ioOfListing(op, path, keepLast) ==
    LET dir == pathDirname(path)
        base == pathBasename(path)
        entries == readdir(dir)
        backups == {e \in entries : startsWith(e, base \o BACKUP)}
        toDelete == IF Cardinality(backups) > keepLast /\ keepLast = 0 THEN backups ELSE {}
    IN  {IoCall("readdir", dir)}
        \cup (IF op = "backup-rotate"
              THEN {IoCall("unlink", pathNormalize(dir \o <<SEP>> \o b)) : b \in toDelete}
              ELSE {})

\* utility(args) for an operation that starts with validatePath: the handler
\* suspends in it.
UtilityValidating(op, path, other) ==
    /\ handler.pc = "idle"
    /\ validateStart(1, path)
    /\ handler' = [IdleHandler EXCEPT !.pc = "validating", !.op = op,
                                      !.path = path, !.second = other]
    /\ UNCHANGED <<storeVars, query, auxVars, rootVars>>

\* validatePath has settled: on a throw the handler throws; otherwise it
\* makes its filesystem calls.
UtilityResume ==
    /\ handler.pc = "validating"
    /\ calls[1].pc = "done"
    /\ handler' =
          IF calls[1].kind = "ok"
          THEN [handler EXCEPT !.pc = "done", !.outcome = "ok",
                               !.validated = {calls[1].result},
                               !.io = ioAfterValidation(handler.op, calls[1].result,
                                                        handler.second)]
          ELSE [handler EXCEPT !.pc = "done", !.outcome = calls[1].kind]
    /\ calls' = [calls EXCEPT ![1] = IdleCall]
    /\ UNCHANGED <<storeVars, query, auxVars, rootVars>>

UtilityListing(op, path, keepLast) ==
    /\ handler.pc = "idle"
    /\ handler' = [IdleHandler EXCEPT !.pc = "done", !.op = op, !.path = path,
                                      !.keepLast = keepLast, !.outcome = "ok",
                                      !.io = ioOfListing(op, path, keepLast)]
    /\ UNCHANGED <<storeVars, calls, query, auxVars, rootVars>>

UtilityReturn ==
    /\ handler.pc = "done"
    /\ handler' = IdleHandler
    /\ UNCHANGED <<storeVars, calls, query, auxVars, rootVars>>

NextTools ==
    \/ \E op \in ValidatingOps, p \in ToolPaths, o \in OtherPaths : UtilityValidating(op, p, o)
    \/ \E op \in ListingOps, p \in ToolPaths, k \in KeepLasts : UtilityListing(op, p, k)
    \/ \E c \in Calls : ValidateRealpath(c)
    \/ \E c \in Calls : ValidateParent(c)
    \/ UtilityResume
    \/ UtilityReturn

InitTools == \E d \in AllowLists : InitWith(d, FALSE, NoQuery)

SpecTools == InitTools /\ [][NextTools]_vars

\* C2: every path a tool handler reads, writes, copies to, lists or deletes
\* is a path validatePath returned to that handler.
C2_AllIoValidated ==
    \A call \in handler.io : call.path \in handler.validated

\* ---------------------------------------- claims on roots and initialization
\* The step in which reconciliation r hands its result to
\* updateAllowedDirectoriesFromRoots.
Finishes(r) ==
    /\ recon[r].pc \in {"idle", "listRoots", "parse", "stat"}
    /\ recon'[r].pc = "done"
    /\ recon'[r].outcome # "failed"

\* The directory a root denotes: the real path of its URI's path when that
\* is a directory; NoPath when the root is to be skipped.
RootDirectory(rootUri) ==
    LET raw == IF startsWith(rootUri, FILE_PREFIX) THEN slice(rootUri, 7) ELSE rootUri
        r == realpath(pathResolve(expandHome(raw)))
    IN  IF r.code = "OK" /\ r.path \in FsDirs THEN r.path ELSE NoPath

RECURSIVE ValidDirectories(_)
ValidDirectories(roots) ==
    IF roots = <<>> THEN <<>>
    ELSE LET d == RootDirectory(Head(roots))
         IN  (IF d = NoPath THEN <<>> ELSE <<d>>) \o ValidDirectories(Tail(roots))

\* C8: a reconciliation that yields no valid directory leaves the allow-list
\* (the store's and the server's) as it was, and ends in a warning.
C8_NoValidRootsKeepsList ==
    [][\A r \in Recons :
          (Finishes(r) /\ ValidDirectories(recon'[r].roots) = <<>>)
          => /\ allowedDirectories' = allowedDirectories
             /\ srvAllowed' = srvAllowed
             /\ recon'[r].outcome = "warned"]_vars

C8_Witness ==
    \E r \in Recons :
        /\ recon[r].pc = "done"
        /\ recon[r].roots = <<uNone, uAf>>
        /\ recon[r].outcome = "warned"
        /\ allowedDirectories = <<pA>>

\* C9: a reconciliation with at least one valid root sets the allow-list to
\* the valid roots' resolved directories, in input order, duplicates kept;
\* every other root is skipped and the reconciliation still ends.
C9_ValidRootsInOrder ==
    [][\A r \in Recons :
          (Finishes(r) /\ ValidDirectories(recon'[r].roots) # <<>>)
          => /\ allowedDirectories' = ValidDirectories(recon'[r].roots)
             /\ recon'[r].outcome = "updated"
             /\ recon'[r].skipped
                  = Len(recon'[r].roots) - Len(ValidDirectories(recon'[r].roots))]_vars

C9_Witness ==
    \E r \in Recons :
        /\ recon[r].pc = "done"
        /\ recon[r].roots = <<uNone, uAd>>
        /\ recon[r].skipped = 1
        /\ recon[r].outcome = "updated"
        /\ allowedDirectories = <<pB>>

\* C10: started with no allowed directories and a client without the roots
\* capability, oninitialized raises 'Server cannot operate: No allowed
\* directories available.'.
C10_InitFailsWithoutDirectories ==
    (init.pc # "connected" /\ ~clientRoots /\ init.startDirs = <<>>)
    => (init.pc = "failed" /\ init.error = NoDirsError)

C10_Witness ==
    /\ ~clientRoots
    /\ init.startDirs = <<>>
    /\ init.pc = "failed"
    /\ init.error = NoDirsError

\* ------------------------------------------- the containment checker alone
\* Path strings of up to MaxSegs segments, written with single or doubled
\* separators and with or without a trailing one.
PathSegments == {<<"a">>, <<"a", "b">>, <<"b">>, DOTDOT, <<"a", "'">>}

RECURSIVE SegLists(_)
SegLists(n) ==
    IF n = 0 THEN {<<>>}
    ELSE LET shorter == SegLists(n - 1)
         IN  shorter \cup {Append(l, g) : l \in shorter, g \in PathSegments}

RawPaths == {<<SEP>> \o JoinSegs(l) : l \in SegLists(MaxSegs)}

\* Candidates that leave a directory and come back beneath it.
DotDotPaths ==
    {<<SEP>> \o JoinSegs(<<<<"a">>, <<"b">>, DOTDOT, <<"b">>>>),
     <<SEP>> \o JoinSegs(<<<<"a">>, <<"b">>, DOTDOT>>)}

\* The checker is handed what its callers hand it: a requested path resolved
\* and normalized (validatePath, lines 19-25) and an allowed directory
\* resolved and normalized (server start-up and root reconciliation).
\* rawResult is its answer for the candidate as written.
ContainmentQuery ==
    /\ ~query.asked
    /\ LET candidate == normalizePath(pathResolve(query.rawPath))
           dir == normalizePath(pathResolve(query.rawDir))
       IN  query' = [query EXCEPT
                        !.path = candidate, !.dir = dir, !.asked = TRUE,
                        !.result = isPathWithinAllowedDirectories(candidate, <<dir>>),
                        !.rawResult = isPathWithinAllowedDirectories(query.rawPath, <<dir>>)]
    /\ UNCHANGED <<storeVars, calls, rootVars, handler, auxVars>>

InitContain ==
    \E p \in RawPaths \cup DotDotPaths, d \in RawPaths :
        InitWith(<<>>, FALSE, [NoQuery EXCEPT !.rawPath = p, !.rawDir = d])

SpecContain == InitContain /\ [][ContainmentQuery]_vars

Settled(c) == calls[c].pc = "done"

\* C1: with the allow-list unchanged during the call, validatePath never
\* succeeds for an existing path whose real path lies outside every allowed
\* directory; such a call ends in 'Access denied'.
C1_SymlinkEscapeBlocked ==
    \A c \in Calls :
        LET r == realpath(calls[c].absolute)
        IN  (/\ Settled(c)
             /\ ~calls[c].replaced
             /\ r.code = "OK"
             /\ ~isPathWithinAllowedDirectories(r.path, calls[c].list1))
            => calls[c].kind = "AccessDenied"

\* C3: a request whose normalized absolute form is in no allowed directory
\* is denied at once, with no filesystem call issued for it.
C3_DeniedBeforeFilesystem ==
    \A c \in Calls :
        (/\ calls[c].pc # "idle"
         /\ ~isPathWithinAllowedDirectories(normalizePath(calls[c].absolute), calls[c].list1))
        => (Settled(c) /\ calls[c].kind = "AccessDenied" /\ calls[c].fsCalls = 0)

C3_Witness ==
    \E c \in Calls :
        /\ Settled(c)
        /\ calls[c].requested = pBg
        /\ calls[c].list1 = <<pA>>
        /\ calls[c].kind = "AccessDenied"
        /\ calls[c].fsCalls = 0

\* C4: a call succeeds only if the allow-list value of its first check
\* admits both its literal path and the real path of its later check.
C4_OneListValue ==
    \A c \in Calls :
        (Settled(c) /\ calls[c].kind = "ok")
        => /\ isPathWithinAllowedDirectories(normalizePath(calls[c].absolute), calls[c].list1)
           /\ isPathWithinAllowedDirectories(normalizePath(calls[c].real), calls[c].list1)

\* C6: a call made while the allow-list is empty fails with 'Access denied',
\* whatever the requested path.
C6_EmptyListRejects ==
    \A c \in Calls :
        (calls[c].pc # "idle" /\ calls[c].list1 = <<>>)
        => (Settled(c) /\ calls[c].kind = "AccessDenied")

C6_Witness ==
    \E c \in Calls :
        /\ Settled(c)
        /\ calls[c].list1 = <<>>
        /\ calls[c].requested = pAf
        /\ calls[c].kind = "AccessDenied"

\* C7: the allow-list always equals the argument of the last
\* setAllowedDirectories call; a call made under it for a path that argument
\* does not contain is denied, and a call whose last check ran under it is
\* accepted only for a real path that argument contains, whatever an
\* earlier argument contained.
C7_WholeSetReplace ==
    /\ allowedDirectories = lastSet
    /\ \A c \in Calls :
          (/\ calls[c].pc # "idle"
           /\ calls[c].list1 = lastSet
           /\ ~isPathWithinAllowedDirectories(normalizePath(calls[c].absolute), lastSet))
          => calls[c].kind = "AccessDenied"
    /\ \A c \in Calls :
          (/\ Settled(c)
           /\ calls[c].kind = "ok"
           /\ calls[c].list2 = lastSet)
          => isPathWithinAllowedDirectories(normalizePath(calls[c].real), lastSet)

\* /a/f passed the first check under [/a]; [/b] was then set; the check
\* after realpath, under [/b], denied it.
C7_Witness ==
    /\ lastSet = <<pB>>
    /\ allowedDirectories = <<pB>>
    /\ \E c \in Calls :
          /\ Settled(c)
          /\ calls[c].requested = pAf
          /\ calls[c].list1 = <<pA>>
          /\ calls[c].list2 = <<pB>>
          /\ calls[c].kind = "AccessDenied"

\* ------------------------------------------- validatePath, ENOENT branch
\* A settled call whose allow-list stayed the one it started under, for a
\* path that does not exist.
NewPathCall(c) ==
    /\ Settled(c)
    /\ ~calls[c].replaced
    /\ realpath(calls[c].absolute).code = "ENOENT"

ParentOf(c) == realpath(pathDirname(calls[c].absolute))

ParentContained(c) ==
    /\ ParentOf(c).code = "OK"
    /\ isPathWithinAllowedDirectories(normalizePath(ParentOf(c).path), calls[c].list1)

LexicallyInside(c) ==
    isPathWithinAllowedDirectories(normalizePath(calls[c].absolute), calls[c].list1)

\* C11 as stated: a call for a path that does not exist, whose parent
\* exists with a real path inside an allowed directory, succeeds and
\* returns the original absolute path.
C11_NewFileSucceeds ==
    \A c \in Calls :
        (NewPathCall(c) /\ ParentContained(c))
        => (calls[c].kind = "ok" /\ calls[c].result = calls[c].absolute)

\* C11 amended: the same, for a requested path that is itself inside an
\* allowed directory as written (it passes the first check).
C11_NewFileInsideSucceeds ==
    \A c \in Calls :
        (NewPathCall(c) /\ LexicallyInside(c) /\ ParentContained(c))
        => (calls[c].kind = "ok" /\ calls[c].result = calls[c].absolute)

\* C11 witness: /a/d/n under [/a, /b] is accepted and returned as written,
\* though its parent /a/d resolves to /b.
C11_Witness ==
    \E c \in Calls :
        /\ NewPathCall(c) /\ LexicallyInside(c) /\ ParentContained(c)
        /\ calls[c].kind = "ok"
        /\ calls[c].real # pathDirname(calls[c].absolute)
        /\ calls[c].result = calls[c].absolute

\* C12: a call for a path inside an allowed directory whose target and
\* parent directory both do not exist fails with the parent-missing error,
\* not with Access denied.
C12_MissingParentFails ==
    \A c \in Calls :
        (NewPathCall(c) /\ LexicallyInside(c) /\ ParentOf(c).code = "ENOENT")
        => calls[c].kind = "ParentMissing"

\* C12 witness: /a/x/n under an allow-list holding /a, after both realpath
\* calls
C12_Witness ==
    \E c \in Calls :
        /\ NewPathCall(c) /\ LexicallyInside(c) /\ ParentOf(c).code = "ENOENT"
        /\ calls[c].fsCalls = 2
        /\ calls[c].kind = "ParentMissing"

\* C13: a call for a path that does not exist, whose parent resolves to a
\* real path outside every allowed directory, fails with Access denied and
\* not with the parent-missing error.
C13_ParentEscapeDenied ==
    \A c \in Calls :
        (/\ NewPathCall(c) /\ LexicallyInside(c)
         /\ ParentOf(c).code = "OK"
         /\ ~ParentContained(c))
        => calls[c].kind = "AccessDenied"

\* ------------------------------------------- callers of the allow-list store
\* Whether the array the module variable refers to after
\* 'allowedDirectories = [...directories]' is the caller's own array, and
\* whether the array 'return [...allowedDirectories]' hands out is the
\* module's own: a spread builds a new array each time.
storedIsArgumentItself == TRUE
storedIsArgument == FALSE

returnedIsStored == FALSE

\* The caller builds an array and hands it to setAllowedDirectories.
CallerSet(directories) ==
    /\ setAllowedDirectories(directories)
    /\ callers' = [callers EXCEPT
            !.given = [held |-> TRUE, value |-> directories,
                       shared |-> storedIsArgument, mutated |-> FALSE],
            !.returned = [@ EXCEPT !.shared = FALSE]]
    /\ UNCHANGED <<query, rootVars, handler, norm, dispatchVars, moreVars>>

\* getAllowedDirectories(): the caller keeps the array it gets.  gotStored
\* notes whether it held the argument of the last setAllowedDirectories call.
CallerGet ==
    /\ callers' = [callers EXCEPT
            !.returned = [held |-> TRUE, value |-> allowedDirectories,
                          shared |-> returnedIsStored, mutated |-> FALSE],
            !.gotStored = (allowedDirectories = lastSet),
            !.gotAfterMutation = callers.given.mutated \/ callers.returned.mutated]
    /\ UNCHANGED <<storeVars, calls, query, rootVars, handler, norm, dispatchVars, moreVars>>

\* What a caller does to an array it holds: push(dir), pop().
Mutations(a) ==
    {a \o <<d>> : d \in IF Len(a) < 2 THEN {pA, pB} ELSE {}}
        \cup (IF Len(a) > 0 THEN {SubSeq(a, 1, Len(a) - 1)} ELSE {})

\* The caller mutates an array it holds.  The write lands in every array
\* that is the same object.
CallerMutate(which, value) ==
    /\ callers[which].held
    /\ value \in Mutations(callers[which].value)
    /\ LET hits(a) == a = which \/ (callers[which].shared /\ callers[a].shared)
           after(a) == IF hits(a)
                       THEN [callers[a] EXCEPT !.value = value, !.mutated = TRUE]
                       ELSE callers[a]
       IN  callers' = [callers EXCEPT !.given = after("given"),
                                      !.returned = after("returned")]
    /\ allowedDirectories' = IF callers[which].shared THEN value ELSE allowedDirectories
    /\ UNCHANGED <<lastSet, calls, query, rootVars, handler, norm, dispatchVars, moreVars>>

\* The caller asks validatePath about a path.  checkedStored notes whether
\* the first check read the argument of the last setAllowedDirectories call.
CallerValidate(requestedPath) ==
    /\ validateStart(1, requestedPath)
    /\ callers' = [callers EXCEPT
            !.checkedStored = (calls'[1].list1 = lastSet),
            !.checkedAfterMutation = callers.given.mutated \/ callers.returned.mutated]
    /\ UNCHANGED <<storeVars, query, rootVars, handler, norm, dispatchVars, moreVars>>

StoreSet      == \E d \in AllowLists : CallerSet(d)
StoreGet      == CallerGet
StoreMutate   == \E which \in {"given", "returned"} :
                     \E value \in Mutations(callers[which].value) : CallerMutate(which, value)
StoreValidate == \E p \in {pA \o <<"/", "n">>, pBg} : CallerValidate(p)

NextStore == StoreSet \/ StoreGet \/ StoreMutate \/ StoreValidate
                 \/ Resolve \/ Parent \/ Return

SpecStore == Init /\ [][NextStore]_vars

\* C14: whatever callers do to the array they passed to
\* setAllowedDirectories or to the array getAllowedDirectories returned, the
\* allow-list is the argument of the last setAllowedDirectories call, and
\* that is what getAllowedDirectories returned and validatePath checked
\* against.
C14_StoreIsolated ==
    /\ allowedDirectories = lastSet
    /\ callers.gotStored
    /\ callers.checkedStored

\* C14 witness: both caller arrays were mutated away from the stored list,
\* and a getAllowedDirectories and a validatePath call made after a
\* mutation still saw the stored list.
C14_Witness ==
    /\ callers.given.held /\ callers.given.mutated
    /\ callers.given.value # lastSet
    /\ callers.returned.mutated
    /\ callers.returned.value # lastSet
    /\ callers.gotAfterMutation /\ callers.gotStored
    /\ callers.checkedAfterMutation /\ callers.checkedStored
    /\ \E c \in Calls : calls[c].pc = "done" /\ calls[c].list1 = lastSet

\* ------------------------------------------------ containment, accepted
\* The candidate p, resolved, is the directory d or lies beneath it.
AtOrBeneath(p, d) ==
    \/ pathResolve(p) = d
    \/ startsWith(pathResolve(p), d \o <<SEP>>)

\* C15: for a normalized absolute allowed directory D the checker accepts D
\* itself and every path D + separator + rest that stays beneath D, and
\* with the root '/' allowed it accepts every absolute path.
C15_AtOrBeneathContained ==
    query.asked =>
        /\ (query.path = query.dir \/ startsWith(query.path, query.dir \o <<SEP>>))
               => query.result
        /\ (startsWith(query.rawPath, query.dir \o <<SEP>>)
               /\ AtOrBeneath(query.rawPath, query.dir))
               => query.rawResult
        /\ query.dir = <<SEP>> => (query.result /\ query.rawResult)

\* C15 witness: /a/b/../b, as written and normalized, is accepted under /a
C15_Witness ==
    /\ query.asked
    /\ query.dir = pA
    /\ query.rawPath = <<SEP>> \o JoinSegs(<<<<"a">>, <<"b">>, DOTDOT, <<"b">>>>)
    /\ query.path = pA \o <<SEP, "b">>
    /\ query.result /\ query.rawResult

\* ------------------------------------------------------- normalizePath
\* Strings handed to normalizePath: whitespace, both quote characters, the
\* separator and a letter.
PathChars == {" ", "'", "\"", SEP, "a"}

RECURSIVE Strings(_)
Strings(n) ==
    IF n = 0 THEN {<<>>}
    ELSE LET shorter == Strings(n - 1)
         IN  shorter \cup {Append(t, ch) : t \in shorter, ch \in PathChars}

\* normalizePath applied to the input, and to its own result.
NormalizeApply ==
    /\ ~norm.applied
    /\ LET once == normalizePath(norm.input)
       IN  norm' = [norm EXCEPT !.once = once, !.twice = normalizePath(once),
                                !.applied = TRUE]
    /\ UNCHANGED <<storeVars, calls, query, rootVars, handler, callers, dispatchVars, moreVars>>

InitNormalize ==
    /\ InitCore(<<>>, FALSE, NoQuery)
    /\ callers = IdleCallers
    /\ InitDispatch
    /\ InitMore
    /\ \E p \in Strings(MaxLen) : norm = [NoNorm EXCEPT !.input = p]

SpecNormalize == InitNormalize /\ [][NormalizeApply]_vars

\* C16: normalizePath is idempotent: applied to its own result it returns
\* that result, for every input string.
C16_NormalizeIdempotent ==
    norm.applied => norm.twice = norm.once

\* The input with surrounding whitespace and quotes stripped
Stripped(p) == stripQuotes(trim(p))

HasDoubleSep(p) == \E k \in 1..(Len(p) - 1) : p[k] = SEP /\ p[k + 1] = SEP

\* C18: normalizePath maps an input that is empty once quotes and
\* whitespace are stripped to '/', and for an input starting with '/' it
\* leaves no repeated '/' and no trailing '/', the root '/' itself excepted.
C18_EmptyToRootAndCollapse ==
    norm.applied =>
        /\ Stripped(norm.input) = <<>> => norm.once = <<SEP>>
        /\ startsWith(Stripped(norm.input), <<SEP>>) =>
              /\ ~HasDoubleSep(norm.once)
              /\ norm.once # <<>>
              /\ (norm.once = <<SEP>> \/ norm.once[Len(norm.once)] # SEP)

\* ------------------------------------------- the checker, malformed input
\* What a call of isPathWithinAllowedDirectories ends with: the value it
\* returns, or the error it throws.  A candidate is given with its typeof.
\* path.resolve yields an absolute path on a POSIX host, so the throw of
\* line 17 is not taken.
containmentOutcome(type, absolutePath, allowedDirs) ==
    IF type # "string" THEN "false"
    ELSE IF isPathWithinAllowedDirectories(absolutePath, allowedDirs)
         THEN "true" ELSE "false"

\* Candidates handed to the checker: the requests, the empty string, a path
\* with a NUL byte, and a number.
Candidates ==
    {[type |-> "string", chars |-> p] :
        p \in Requests \cup {<<>>, pA \o <<SEP, NUL>>, <<NUL>>}}
      \cup {[type |-> "number", chars |-> <<>>]}

CheckerCall ==
    /\ ~query.asked
    /\ query' = [query EXCEPT
            !.asked = TRUE,
            !.outcome = containmentOutcome(query.type, query.rawPath, allowedDirectories)]
    /\ UNCHANGED <<storeVars, calls, rootVars, handler, auxVars>>

InitChecker ==
    \E d \in AllowLists, c \in Candidates :
        InitWith(d, FALSE, [NoQuery EXCEPT !.type = c.type, !.rawPath = c.chars])

SpecChecker == InitChecker /\ [][CheckerCall]_vars

Malformed(type, chars) ==
    type # "string" \/ chars = <<>> \/ includes(chars, NUL)

\* C17: for an empty candidate, a candidate that is not a string and a
\* candidate with a NUL byte the checker does not end with the plain false
\* it returns for a path that is not contained.
C17_MalformedSignalled ==
    (query.asked /\ Malformed(query.type, query.rawPath))
        => query.outcome # "false"

\* ------------------------------------------------- the tools/call handler
RateLimitedText == "Rate limit exceeded. Please try again later."

\* Arguments of a tools/call request
ToolArgs == {"p", "q"}

\* Lines 49-62: what the rate limiter does with a call of the tool whose
\* entry is current, at time t: the entry afterwards, and whether the call
\* goes on to the audit line and the tool's handler.
rateLimitStepExtending(current, t) ==
    IF current.set
    THEN IF t > current.resetTime
         THEN [entry |-> [set |-> TRUE, count |-> 1, resetTime |-> t + RATE_LIMIT_WINDOW],
               pass |-> TRUE]
         ELSE IF current.count >= RATE_LIMIT_MAX
         THEN [entry |-> [current EXCEPT !.resetTime = t + RATE_LIMIT_WINDOW],
               pass |-> FALSE]
         ELSE [entry |-> [current EXCEPT !.count = @ + 1], pass |-> TRUE]
    ELSE [entry |-> [set |-> TRUE, count |-> 1, resetTime |-> t + RATE_LIMIT_WINDOW],
          pass |-> TRUE]

rateLimitStep(current, t) ==
    IF current.set
    THEN IF t > current.resetTime
         THEN [entry |-> [set |-> TRUE, count |-> 1, resetTime |-> t + RATE_LIMIT_WINDOW],
               pass |-> TRUE]
         ELSE IF current.count >= RATE_LIMIT_MAX
         THEN [entry |-> current, pass |-> FALSE]
         ELSE [entry |-> [current EXCEPT !.count = @ + 1], pass |-> TRUE]
    ELSE [entry |-> [set |-> TRUE, count |-> 1, resetTime |-> t + RATE_LIMIT_WINDOW],
          pass |-> TRUE]

\* Line 70: fn(args, allowedDirectories) hands the tool's handler the
\* server's own list, not the store of lib.ts.
handedDirectoriesAtStart(serverList, store) == <<pA>>
handedDirectories(serverList, store) == serverList

\* The CallToolRequest handler, lines 42-76, for a tool of the handler map:
\* rate limiting, the audit line, and the call of the tool's handler.
CallTool(name, args) ==
    /\ name = "search" => rateLimit[name].count < MaxOther
    /\ LET step == rateLimitStep(rateLimit[name], now)
       IN  /\ rateLimit' = [rateLimit EXCEPT ![name] = step.entry]
           /\ request' =
                 IF step.pass
                 THEN [name |-> name, args |-> args, response |-> "result",
                       audit |-> [written |-> TRUE, name |-> name, args |-> args],
                       warned |-> FALSE, ran |-> TRUE,
                       handed |-> handedDirectories(srvAllowed, allowedDirectories),
                       before |-> rateLimit[name]]
                 ELSE [name |-> name, args |-> args, response |-> RateLimitedText,
                       audit |-> NoAudit, warned |-> TRUE, ran |-> FALSE,
                       handed |-> <<>>, before |-> rateLimit[name]]
           /\ sent' = IF step.pass
                      THEN [sent EXCEPT ![name][now] = @ + 1]
                      ELSE sent
    /\ UNCHANGED <<now, storeVars, calls, query, rootVars, handler, callers, norm, moreVars>>

\* Time passes to the next instant.  Calls dispatched more than a window
\* ago leave the record of recent calls.
Tick ==
    /\ \E i \in Instants : i > now
    /\ LET next == CHOOSE i \in Instants :
                       i > now /\ \A j \in Instants : j > now => i <= j
       IN  /\ now' = next
           /\ sent' = [t \in Tools |-> [i \in Instants |->
                          IF next - i > RATE_LIMIT_WINDOW THEN 0 ELSE sent[t][i]]]
    /\ UNCHANGED <<rateLimit, request, storeVars, calls, query, rootVars,
                   handler, callers, norm, moreVars>>

Call == \E name \in Tools, args \in ToolArgs : CallTool(name, args)

NextDispatch == Call \/ Tick

InitServing == InitWith(<<pA>>, FALSE, NoQuery)

SpecDispatch == InitServing /\ [][NextDispatch]_vars

\* Calls of tool t dispatched at the instants from i to one window later
RECURSIVE SumSent(_, _)
SumSent(t, S) ==
    IF S = {} THEN 0
    ELSE LET i == CHOOSE x \in S : TRUE
         IN  sent[t][i] + SumSent(t, S \ {i})

SpanCount(t, i) ==
    SumSent(t, {j \in Instants : i <= j /\ j - i <= RATE_LIMIT_WINDOW})

\* C19: for each tool at most RATE_LIMIT_MAX calls are dispatched to its
\* handler within any span of RATE_LIMIT_WINDOW milliseconds; a call that
\* is rate limited gets the 'Rate limit exceeded' response without the
\* handler being run, and only when the tool's own counter is at the limit.
C19_RateLimitPerTool ==
    /\ \A t \in Tools : \A i \in Instants : SpanCount(t, i) <= RATE_LIMIT_MAX
    /\ request.response = RateLimitedText =>
          (~request.ran /\ rateLimit[request.name].count >= RATE_LIMIT_MAX)
    /\ request.name # "none" =>
          (request.ran \/ request.response = RateLimitedText)

\* C20: every tools/call request handled, a rate-limited one included,
\* wrote an audit line with its tool name and its arguments.
C20_EveryCallAudited ==
    request.name # "none" =>
        /\ request.audit.written
        /\ request.audit.name = request.name
        /\ request.audit.args = request.args

\* ------------------------------------------- the tools/call handler, errors
\* Names a client may ask for: a tool of the handler map and a name that is
\* not in it.
RoutedNames == {"write", UnknownName}

\* What the tool's handler does once it is called: it returns a result, it
\* throws an Error (path validation's Access denied, its own argument
\* check), or it rejects with a value that is not an Error.
AccessDeniedMessage == <<"Access denied - path outside allowed directories">>
InvalidArgsMessage  == <<"Invalid arguments for write">>

HandlerBehaviours == {"returns", "deniesPath", "rejectsArgs", "rejectsValue"}

thrownBy(behaviour) ==
    CASE behaviour = "deniesPath" ->
            [thrown |-> TRUE, instanceofError |-> TRUE, message |-> AccessDeniedMessage]
      [] behaviour = "rejectsArgs" ->
            [thrown |-> TRUE, instanceofError |-> TRUE, message |-> InvalidArgsMessage]
      [] behaviour = "rejectsValue" ->
            [thrown |-> TRUE, instanceofError |-> FALSE, message |-> <<"boom">>]
      [] OTHER -> NoError

\* line 68: throw new Error(`Unknown tool: ${name}`)
UnknownTool(name) ==
    [thrown |-> TRUE, instanceofError |-> TRUE, message |-> <<"Unknown tool: ", name>>]

\* Lines 72-75: the catch clause of the handler.  Every value thrown inside
\* the try block ends as a response; nothing is thrown on.
ErrorText(error) == <<"Error: ">> \o error.message

catchOnlyErrors(error) ==
    IF error.instanceofError
    THEN [isError |-> TRUE, text |-> ErrorText(error), escaped |-> FALSE]
    ELSE [isError |-> FALSE, text |-> <<>>, escaped |-> TRUE]

catch(error) ==
    [isError |-> TRUE, text |-> ErrorText(error), escaped |-> FALSE]

Responded(r, error) ==
    LET c == catch(error)
    IN  [r EXCEPT !.pc = IF c.escaped THEN "crashed" ELSE "responded",
                  !.raised = error, !.isError = c.isError, !.text = c.text,
                  !.escaped = c.escaped]

\* The CallToolRequest handler, lines 42-70, up to the await of the tool's
\* handler: rate limiting, the audit line, the lookup in the handler map.
RouteCall(name, behaviour) ==
    /\ router.pc \in {"idle", "responded"}
    /\ LET step == rateLimitStep(rateLimit[name], now)
           me == [IdleRouter EXCEPT
                     !.name = name, !.behaviour = behaviour,
                     !.afterError = router.afterError \/ router.raised.thrown]
       IN  /\ rateLimit' = [rateLimit EXCEPT ![name] = step.entry]
           /\ router' =
                 IF ~step.pass
                 THEN [me EXCEPT !.pc = "responded", !.isError = TRUE,
                                 !.text = <<RateLimitedText>>]
                 ELSE IF name \notin Tools
                 THEN Responded(me, UnknownTool(name))
                 ELSE [me EXCEPT !.pc = "awaiting"]
    /\ UNCHANGED <<now, sent, request, coreVars, callers, norm, merge,
                   finder, writers>>

\* Line 70-75: the tool's handler settles; its result is returned, its
\* rejection is caught.
RouteSettle ==
    /\ router.pc = "awaiting"
    /\ LET error == thrownBy(router.behaviour)
       IN  router' = IF error.thrown
                     THEN Responded(router, error)
                     ELSE [router EXCEPT !.pc = "responded", !.text = <<"result">>]
    /\ UNCHANGED <<dispatchVars, coreVars, callers, norm, merge, finder, writers>>

Route == \E name \in RoutedNames, behaviour \in HandlerBehaviours :
             RouteCall(name, behaviour)

NextRouter == Route \/ RouteSettle

SpecRouter == InitServing /\ [][NextRouter]_vars

NL == "\n"

\* String.prototype.split('\n'): the pieces between newlines
RECURSIVE splitLines(_)
splitLines(s) ==
    IF ~includes(s, NL) THEN <<s>>
    ELSE LET k == CHOOSE i \in 1..Len(s) : s[i] = NL /\ \A j \in 1..(i - 1) : s[j] # NL
         IN  <<SubSeq(s, 1, k - 1)>> \o splitLines(SubSeq(s, k + 1, Len(s)))

\* Array.prototype.join(separator)
RECURSIVE join(_, _)
join(parts, separator) ==
    IF parts = <<>> THEN <<>>
    ELSE IF Len(parts) = 1 THEN parts[1]
    ELSE parts[1] \o separator \o join(Tail(parts), separator)

\* contents.flatMap(c => c.split('\n'))
RECURSIVE flatMapSplit(_)
flatMapSplit(contents) ==
    IF contents = <<>> THEN <<>>
    ELSE splitLines(Head(contents)) \o flatMapSplit(Tail(contents))

\* utility merge-text, lines 215-220, without removeDuplicateLines and sort:
\* the text handed to fs.writeFile
mergeText(contents, separator) == join(flatMapSplit(contents), separator)

\* file_merge, line 63, without removeDuplicateLines and sort
fileMerge(contents, separator) == join(contents, separator)

\* Contents of the input files and separators of the request
FileChars == {"x", NL}

RECURSIVE Texts(_)
Texts(n) ==
    IF n = 0 THEN {<<>>}
    ELSE LET shorter == Texts(n - 1)
         IN  shorter \cup {Append(t, ch) : t \in shorter, ch \in FileChars}

RECURSIVE FileLists(_)
FileLists(n) ==
    IF n = 0 THEN {<<>>}
    ELSE LET shorter == FileLists(n - 1)
         IN  shorter \cup {Append(l, t) : l \in shorter, t \in Texts(2)}

Separators == {<<NL>>, <<"-", "-", "-">>, <<>>}

\* The merge handlers, with every path inside the allow-list and every
\* input file readable: the input files are read and the merged text is
\* written to the output path.
MergeWrite ==
    /\ ~merge.done
    /\ merge' = [merge EXCEPT
            !.done = TRUE,
            !.written = IF merge.tool = "utility"
                        THEN mergeText(merge.contents, merge.separator)
                        ELSE fileMerge(merge.contents, merge.separator)]
    /\ UNCHANGED <<coreVars, callers, norm, dispatchVars, router, finder, writers>>

InitMerge ==
    /\ InitCore(<<pA>>, FALSE, NoQuery)
    /\ callers = IdleCallers
    /\ norm = NoNorm
    /\ InitDispatch
    /\ router = IdleRouter
    /\ finder = IdleFinder
    /\ writers = IdleWriters
    /\ \E tool \in {"utility", "file_merge"}, contents \in FileLists(MaxFiles),
          separator \in Separators :
            /\ Len(contents) > 0
            /\ merge = [NoMerge EXCEPT !.tool = tool, !.contents = contents,
                                       !.separator = separator]

SpecMerge == InitMerge /\ [][MergeWrite]_vars

\* C22: a text merge without deduplication or sorting writes the contents
\* of the input files, in input order, joined by the separator, whatever
\* the contents and the separator.
C22_MergeJoinsContents ==
    merge.done => merge.written = join(merge.contents, merge.separator)

\* ------------------------------------------- reconciliations side by side
\* Two roots/list_changed notifications, each handled by its own run of the
\* notification handler; notification 2 is the one received last.  Beside
\* them a tool handler calls validatePath and getAllowedDirectories.
Notifications == {1, 2}

ChangedRoots == {<<uFileA, uAd>>, <<uAd>>, <<uAf>>}

ReceiveNotification(r) ==
    /\ \A q \in Notifications : q < r => recon[q].pc # "idle"
    /\ RootsListChanged(r)

Received       == \E r \in Notifications : ReceiveNotification(r)
ListRootsFails == \E r \in Notifications : NotifyRootsFailed(r)
ListRoots      == \E r \in Notifications, l \in ChangedRoots : NotifyRootsResponse(r, l)
ParseNext      == \E r \in Notifications : ReconcileParse(r)
StatNext       == \E r \in Notifications : ReconcileStat(r)
ValidateBeside == \E p \in {pAf, pBg} : ValidateStart(1, p)

NextReconcile ==
    \/ OnInitialized
    \/ Received \/ ListRootsFails \/ ListRoots \/ ParseNext \/ StatNext
    \/ ValidateBeside \/ Resolve \/ Return \/ StoreGet

InitReconcile ==
    /\ allowedDirectories = <<pB>>
    /\ lastSet = <<pB>>
    /\ calls = [c \in Calls |-> IdleCall]
    /\ query = NoQuery
    /\ srvAllowed = <<pB>>
    /\ clientRoots = FALSE
    /\ init = [pc |-> "connected", error |-> "none", startDirs |-> <<pB>>]
    /\ recon = [r \in Notifications |-> IdleRecon]
    /\ handler = IdleHandler
    /\ callers = IdleCallers
    /\ norm = NoNorm
    /\ InitDispatch
    /\ InitMore

SpecReconcile == InitReconcile /\ [][NextReconcile]_vars

\* A reconciliation suspended between the filesystem calls of its roots.
Reconciling(r) == recon[r].pc \in {"parse", "stat"}

\* C23: the store changes only in the step in which a reconciliation ends,
\* and then to that reconciliation's complete list of valid directories;
\* a validatePath or getAllowedDirectories call that runs while a
\* reconciliation is suspended reads the list as it was before that step.
C23_ReconcileReplacesAtOnce ==
    [][/\ allowedDirectories' # allowedDirectories
            => \E r \in Notifications :
                   /\ Finishes(r)
                   /\ allowedDirectories' = ValidDirectories(recon'[r].roots)
       /\ \A r \in Notifications :
              (Reconciling(r) /\ ~Finishes(r))
              => /\ \A c \in Calls :
                        (calls[c].pc = "idle" /\ calls'[c].pc # "idle")
                        => calls'[c].list1 = allowedDirectories
                 /\ callers'.returned # callers.returned
                        => callers'.returned.value = allowedDirectories
                 /\ (\A q \in Notifications : ~Finishes(q))
                        => allowedDirectories' = allowedDirectories]_vars

C23_Witness ==
    /\ recon[1].pc = "stat"
    /\ recon[1].roots = <<uFileA, uAd>>
    /\ recon[1].validatedDirectories = <<pA>>
    /\ allowedDirectories = <<pB>>
    /\ calls[1].requested = pBg
    /\ calls[1].list1 = <<pB>>
    /\ calls[1].kind = "ok"
    /\ callers.returned.held
    /\ callers.returned.value = <<pB>>

\* C24: once two notifications handled side by side have both replaced the
\* allow-list, it holds the valid roots of the one received last.
C24_LastNotificationWins ==
    (\A r \in Notifications : recon[r].pc = "done" /\ recon[r].outcome = "updated")
    => allowedDirectories = ValidDirectories(recon[2].roots)

\* ------------------------------------------------ the list handed to tools
\* Start-up, root reconciliations and calls of a tool of the search module
\* (list_allowed_directories reports the list it is handed, search.ts
\* lines 572-574).
HandToTool == \E args \in ToolArgs : CallTool("search", args)

ServeInitRoots   == \E l \in ChangedRoots : InitRootsResponse(1, l)
ServeNotifyRoots == \E l \in ChangedRoots : NotifyRootsResponse(1, l)

NextServe ==
    \/ OnInitialized \/ InitRootsFailed \/ ServeInitRoots
    \/ Notify \/ NotifyFail \/ ServeNotifyRoots
    \/ ParseRoot \/ StatRoot \/ ReconReturn
    \/ HandToTool

SpecServe == InitRootsSpec /\ [][NextServe]_vars

\* C25: once oninitialized has ended without raising, the allow-list holds
\* at least one directory.
C25_InitLeavesDirectories ==
    init.pc = "ready" => Len(allowedDirectories) > 0

\* C26: whenever a tool handler is called, the list it is handed (the one
\* list_allowed_directories reports) is the allow-list validatePath checks
\* against at that moment; the server's list and the store never differ.
C26_HandedListIsStore ==
    [][/\ (rateLimit' # rateLimit /\ request'.ran)
            => request'.handed = allowedDirectories
       /\ srvAllowed' = allowedDirectories']_vars

C26_Witness ==
    /\ request.ran
    /\ request.handed = <<pA, pB>>
    /\ allowedDirectories = <<pA, pB>>
    /\ init.startDirs = <<pA>>

\* ------------------------------------------------ searchFilesWithValidation
\* Dirent.isDirectory() of the entry at fullPath: a symlink is not one.
entryIsDirectory(fullPath) == fullPath \in FsDirs

\* minimatch(relativePath, pattern, {dot: true}) for the two patterns used:
\* '**' matches every entry, '**/g' the entries named g.
SearchPatterns == {"**", "**/g"}

minimatch(fullPath, pattern) ==
    pattern = "**" \/ pathBasename(fullPath) = <<"g">>

\* Lines 30-51: whether search() recurses into an entry.
descendsUnchecked(validated, isDirectory) == isDirectory
descends(validated, isDirectory) == validated /\ isDirectory

\* A search() call whose for-loop has run out of entries returns to the
\* loop of its caller; the outermost return ends the search.
RECURSIVE unwind(_)
unwind(stack) ==
    IF stack # <<>> /\ stack[Len(stack)].rest = {}
    THEN unwind(SubSeq(stack, 1, Len(stack) - 1))
    ELSE stack

settle(f) ==
    LET stack == unwind(f.stack)
    IN  [f EXCEPT !.stack = stack, !.pc = IF stack = <<>> THEN "done" ELSE "next"]

\* searchFilesWithValidation(rootPath, pattern, ...), lines 13-26 and 56:
\* fs.readdir(rootPath) settles; a rejection rejects the whole search.
SearchStart(rootPath, pattern) ==
    /\ finder.pc = "idle"
    /\ finder' =
          IF statIsDirectory(rootPath)
          THEN settle([IdleFinder EXCEPT
                          !.rootPath = rootPath, !.pattern = pattern,
                          !.stack = <<[dir |-> rootPath, rest |-> readdir(rootPath)]>>,
                          !.read = {rootPath}])
          ELSE [IdleFinder EXCEPT !.pc = "failed", !.rootPath = rootPath,
                                  !.pattern = pattern]
    /\ UNCHANGED <<coreVars, callers, norm, dispatchVars, router, merge, writers>>

\* Lines 28-31: the loop takes the next entry and awaits validatePath.
SearchVisit ==
    /\ finder.pc = "next"
    /\ LET top == finder.stack[Len(finder.stack)]
       IN  \E name \in top.rest :
               LET fullPath == pathJoin(top.dir, name)
               IN  /\ validateStart(1, fullPath)
                   /\ finder' = [finder EXCEPT
                          !.pc = "validating",
                          !.current = fullPath,
                          !.visited = @ \cup {fullPath},
                          !.stack[Len(finder.stack)].rest = @ \ {name}]
    /\ UNCHANGED <<storeVars, query, rootVars, handler, callers, norm,
                   dispatchVars, router, merge, writers>>

\* Lines 31-53: validatePath has settled.  A throw is swallowed and the
\* loop goes on; otherwise the entry is matched and, when it is a
\* directory, read and searched.
SearchResume ==
    /\ finder.pc = "validating"
    /\ calls[1].pc = "done"
    /\ LET validated == calls[1].kind = "ok"
           fullPath == finder.current
           matched == validated /\ minimatch(fullPath, finder.pattern)
           down == descends(validated, entryIsDirectory(fullPath))
       IN  finder' = settle([finder EXCEPT
               !.current = NoPath,
               !.results = IF matched THEN Append(@, fullPath) ELSE @,
               !.passed = IF validated THEN @ \cup {fullPath} ELSE @,
               !.failed = IF validated THEN @ ELSE @ \cup {fullPath},
               !.read = IF down THEN @ \cup {fullPath} ELSE @,
               !.stack = IF down
                         THEN Append(@, [dir |-> fullPath, rest |-> readdir(fullPath)])
                         ELSE @])
    /\ calls' = [calls EXCEPT ![1] = IdleCall]
    /\ UNCHANGED <<storeVars, query, rootVars, handler, callers, norm,
                   dispatchVars, router, merge, writers>>

\* The search promise settles and the caller takes the results.
SearchReturn ==
    /\ finder.pc \in {"done", "failed"}
    /\ finder' = IdleFinder
    /\ UNCHANGED <<coreVars, callers, norm, dispatchVars, router, merge, writers>>

SearchRoots == {<<SEP>>, pA, pAf}

Search == \E rootPath \in SearchRoots, pattern \in SearchPatterns :
              SearchStart(rootPath, pattern)

\* The allow-list is replaced while the search is suspended.
ReplaceBeside == \E d \in {<<pA>>, <<pB>>} : SetAllowedDirectories(d)

NextSearch ==
    \/ Search \/ SearchVisit \/ SearchResume \/ SearchReturn
    \/ Resolve \/ ReplaceBeside

SpecSearch == InitServing /\ [][NextSearch]_vars

Beneath(p, d) == p # d /\ startsWith(p, (IF d = <<SEP>> THEN <<>> ELSE d) \o <<SEP>>)

\* C27: every path searchFilesWithValidation returns passed validatePath
\* when it was visited; an entry that fails validation does not end the
\* search, which goes on to visit every entry of every directory it read;
\* nothing beneath a failing entry is visited or returned.
C27_EveryEntryValidated ==
    /\ \A i \in 1..Len(finder.results) : finder.results[i] \in finder.passed
    /\ finder.failed # {} => finder.pc # "failed"
    /\ finder.pc = "done"
          => \A d \in finder.read :
                 \A name \in readdir(d) : pathJoin(d, name) \in finder.visited
    /\ \A f \in finder.failed :
          /\ f \notin finder.read
          /\ \A p \in finder.visited : ~Beneath(p, f)
          /\ \A i \in 1..Len(finder.results) : ~Beneath(finder.results[i], f)

C27_Witness ==
    /\ finder.pc = "done"
    /\ finder.rootPath = <<SEP>>
    /\ pB \in finder.failed
    /\ pA \in finder.passed
    /\ \E i \in 1..Len(finder.results) : finder.results[i] = pAf
    /\ pAl \in finder.failed

\* ------------------------------------------------- dot segments and time
\* The requested path, with its '.' and '..' segments resolved, is at or
\* beneath no directory of the allow-list the call started under.
ResolvedOutside(c) ==
    \A i \in 1..Len(calls[c].list1) : ~AtOrBeneath(calls[c].absolute, calls[c].list1[i])

\* C28: a call for a path that resolves to a place outside every allowed
\* directory ends in 'Access denied', whatever its literal string starts
\* with.
C28_ResolvedOutsideDenied ==
    \A c \in Calls :
        (Settled(c) /\ ResolvedOutside(c)) => calls[c].kind = "AccessDenied"

\* The step is a tools/call request for tool t.
CallOf(t) ==
    /\ request'.name = t
    /\ request' # request \/ rateLimit' # rateLimit

\* C29: a call of a tool that arrives after the reset time of the tool's
\* window is accepted and opens a new window of RATE_LIMIT_WINDOW
\* milliseconds with count 1, also when the tool had used up its quota; a
\* rejected call leaves every entry of the rate-limit map as it was.
C29_WindowReopens ==
    [][\A t \in Tools :
          CallOf(t)
          => /\ (rateLimit[t].set /\ now > rateLimit[t].resetTime)
                    => /\ request'.ran
                       /\ rateLimit'[t] = [set |-> TRUE, count |-> 1,
                                           resetTime |-> now + RATE_LIMIT_WINDOW]
             /\ ~request'.ran => rateLimit' = rateLimit]_vars

C29_Witness ==
    /\ request.ran
    /\ request.name = "write"
    /\ request.before.count = RATE_LIMIT_MAX
    /\ now > request.before.resetTime
    /\ rateLimit["write"] = [set |-> TRUE, count |-> 1,
                             resetTime |-> now + RATE_LIMIT_WINDOW]

\* ------------------------------------------------------------ atomicWrite
\* Two atomicWrite calls for one target file, as the operations of one
\* batch write with atomic set make them.  A temp file is named by the
\* target and the instant of Date.now().
ContentOf(w) == IF w = 1 THEN "first" ELSE "second"

\* Lines 28-30: tempPath is computed and fs.writeFile(tempPath) awaited.
AtomicWriteStart(w) ==
    /\ writers.ops[w].pc = "idle"
    /\ writers' = [writers EXCEPT !.ops[w] =
            [pc |-> "writeFile", tempPath |-> now, content |-> ContentOf(w)]]
    /\ UNCHANGED <<coreVars, callers, norm, dispatchVars, router, merge, finder>>

\* Lines 30-31: fs.writeFile has written the temp file; fs.rename is awaited.
AtomicWriteFile(w) ==
    /\ writers.ops[w].pc = "writeFile"
    /\ writers' = [writers EXCEPT
            !.temps[writers.ops[w].tempPath] = writers.ops[w].content,
            !.ops[w].pc = "rename"]
    /\ UNCHANGED <<coreVars, callers, norm, dispatchVars, router, merge, finder>>

\* Lines 31-34: fs.rename(tempPath, filePath) settles: the temp file
\* becomes the target, or there is no temp file and the call goes to its
\* catch block and awaits fs.unlink(tempPath).
AtomicRename(w) ==
    /\ writers.ops[w].pc = "rename"
    /\ LET tempPath == writers.ops[w].tempPath
       IN  writers' =
             IF writers.temps[tempPath] # "absent"
             THEN [writers EXCEPT !.target = writers.temps[tempPath],
                                  !.temps[tempPath] = "absent",
                                  !.ops[w].pc = "fulfilled"]
             ELSE [writers EXCEPT !.ops[w].pc = "unlink"]
    /\ UNCHANGED <<coreVars, callers, norm, dispatchVars, router, merge, finder>>

\* Lines 33-36: fs.unlink(tempPath) settles, its error swallowed, and the
\* error of the try block is thrown again.
AtomicUnlink(w) ==
    /\ writers.ops[w].pc = "unlink"
    /\ writers' = [writers EXCEPT !.temps[writers.ops[w].tempPath] = "absent",
                                  !.ops[w].pc = "rejected"]
    /\ UNCHANGED <<coreVars, callers, norm, dispatchVars, router, merge, finder>>

WriteStart  == \E w \in Writers : AtomicWriteStart(w)
WriteTemp   == \E w \in Writers : AtomicWriteFile(w)
WriteRename == \E w \in Writers : AtomicRename(w)
WriteUnlink == \E w \in Writers : AtomicUnlink(w)

NextWrite == WriteStart \/ WriteTemp \/ WriteRename \/ WriteUnlink \/ Tick

SpecWrite == InitServing /\ [][NextWrite]_vars

\* C30: once two atomic writes to one target have both settled, both are
\* fulfilled, the target holds the content of one of them, and no temp
\* file exists.
C30_BothAtomicWritesSucceed ==
    (\A w \in Writers : writers.ops[w].pc \in {"fulfilled", "rejected"})
    => /\ \A w \in Writers : writers.ops[w].pc = "fulfilled"
       /\ writers.target \in {ContentOf(w) : w \in Writers}
       /\ \A i \in Instants : writers.temps[i] = "absent"

====
